---------------------------- MODULE Spec2Model ----------------------------
(***************************************************************************)
(* A model of mzbuild (misc/python/materialize/mzbuild.py): the dependency *)
(* resolver of Repository and the orchestration of DependencySet.          *)
(*                                                                         *)
(* Image names are the numbers 1..NumImages; the order of the numbers      *)
(* stands for the lexicographic order of the names that sorted() uses.     *)
(***************************************************************************)
EXTENDS Integers, Sequences, FiniteSets, TLC

\* Number of images registered in the repository.
NumImages == 3
\* Largest number of MZFROM lines over all Dockerfiles of the repository.
MaxEdges == 3
\* Largest number of images of a DependencySet that is acquired, ensured or
\* checked (the resolver alone is explored without this bound).
MaxSet == 2

Names == 1..NumImages

\* Pre-image actions of one image at most.
MaxPre == 2

\* Lines of a Dockerfile at most.
MaxLines == 2

\* Directories of a repository at most.
MaxDirs == 2

\* CPUs of the machine at most.
MaxCpus == 8

VARIABLES
    depends_on,     \* Image.depends_on: name -> list of names, in Dockerfile order
    publish,        \* Image.publish: name -> BOOLEAN
    targets,        \* the targets handed to resolve_dependencies, as iterated
    pc,             \* where the program is
    pending,        \* resolve_dependencies: sorted targets not visited yet
    stack,          \* the frames of visit(): <<name, children still to visit>>
    resolved,       \* resolve_dependencies: the OrderedDict resolved (its keys)
    visiting,       \* resolve_dependencies: the set visiting
    diagram,        \* the path reported by the circular dependency error
    local,          \* names whose spec is in the local image store (docker images)
    registry,       \* names whose spec is in the remote registry
    _dependencies,  \* DependencySet._dependencies: its keys, in insertion order
    acquired,       \* ResolvedImage.acquired: name -> BOOLEAN
    op,             \* the DependencySet method called last (or running)
    returned,       \* whether acquire had returned normally when op was called
    idx,            \* position of the running loop
    deps_to_build,  \* acquire, ensure: deps_to_build
    pulls,          \* the docker pulls this call ran: <<name, whether it succeeded>>
    built,          \* names for which this call ran build, in order
    post_build,     \* ensure: whether a post_build callback was supplied
    called_back,    \* names handed to post_build by this call
    images_to_push, \* ensure: images_to_push
    pushes,         \* ensure: the Popen objects of pushes
    answers,        \* results of is_published_if_necessary in this call
    ret,            \* the value check() returned
    error,          \* the kind of the exception that ended the run
    pre_images,     \* Image.pre_images: name -> list of pre-image classes
    batch_images,   \* the images handed to _prepare_batch and then built
    grouped,        \* _prepare_batch: the defaultdict grouping instances by class
    pre_image_prep, \* _prepare_batch: the dict pre_image_prep, as its items
    prepare_calls,  \* the calls of prepare_batch: class, instances, value returned
    runs,           \* the calls of PreImage.run: instance, class, prep handed over
    at,             \* position of the loops over images and their pre-images
    rd,             \* RepositoryDetails of a run: arch, release_mode, coverage, sanitizer
    flags,          \* CargoPreImage.extra: the list flags
    extra_ret,      \* CargoPreImage.extra: the string returned
    tree,           \* the files git knows in the work tree of a run
    matching,       \* Copy.matching of the copy pre-images (their source is libs)
    fps,            \* the cache of ResolvedImage.fingerprint: run -> name -> value
    specs,          \* what spec() returned for an image in run 1: first, last, again
    dockerfile,     \* the lines of the Dockerfile of an image
    df_depends_on,  \* Image.depends_on as read from that Dockerfile
    df_dependencies, \* ResolvedImage.dependencies of the image: its keys
    written,        \* write_dockerfile: the lines written to the temporary file
    walk,           \* Repository.__init__: the directories os.walk gives
    repo_images,    \* Repository.images: name -> depends_on of the image
    compositions,   \* Repository.compositions: the names
    cpu_count,      \* multiprocessing.cpu_count()
    cargo_build,    \* generate_cargo_build_command: the options appended
    jobs_arg        \* the number whose str() follows --jobs; 0 without --jobs

repoVars == <<depends_on, publish, targets>>
resolveVars == <<pending, stack, resolved, visiting, diagram>>
envVars == <<local, registry>>
callVars == <<op, returned, idx, deps_to_build, pulls, built, post_build,
              called_back, images_to_push, pushes, answers, ret, error>>
batchVars == <<pre_images, batch_images, grouped, pre_image_prep, prepare_calls, runs, at>>
\* The state of the operations that are modelled on their own.
extraVars == <<flags, extra_ret>>
batchCallVars == <<batch_images, grouped, pre_image_prep, prepare_calls, runs>>
fpVars == <<tree, matching, fps, specs>>
dfVars == <<dockerfile, df_depends_on, df_dependencies, written>>
walkVars == <<walk, repo_images, compositions>>
otherVars == <<dfVars, walkVars>>
cmdVars == <<cpu_count, cargo_build, jobs_arg>>
sideVars == <<batchVars, rd, extraVars, fpVars, otherVars, cmdVars>>
\* The state of a run of the resolver and of the DependencySet, but for pc
\* and error.
progVars == <<repoVars, resolveVars, envVars, _dependencies, acquired, op,
              returned, idx, deps_to_build, pulls, built, post_build,
              called_back, images_to_push, pushes, answers, ret>>
vars == <<repoVars, pc, resolveVars, envVars, _dependencies, acquired, callVars,
          sideVars>>

----------------------------------------------------------------------------
(* Helpers on sequences *)

Range(s) == {s[i] : i \in 1..Len(s)}

InSeq(x, s) == \E i \in 1..Len(s) : s[i] = x

SeqsUpTo(S, n) == UNION {[1..k -> S] : k \in 0..n}

RECURSIVE Insert(_, _)
Insert(x, s) ==
    IF s = <<>> THEN <<x>>
    ELSE IF x <= Head(s) THEN <<x>> \o s
    ELSE <<Head(s)>> \o Insert(x, Tail(s))

\* sorted() as it would be if it kept the order it is given.
unsorted(s) == s

\* Python's sorted() on a list of names: ascending, duplicates kept.
RECURSIVE sorted(_)
sorted(s) == IF s = <<>> THEN <<>> ELSE Insert(Head(s), sorted(Tail(s)))

\* The entries of one owner in a list of (owner, dependency) pairs, in order.
RECURSIVE DepsOf(_, _)
DepsOf(n, edges) ==
    IF edges = <<>> THEN <<>>
    ELSE IF Head(edges)[1] = n THEN <<Head(edges)[2]>> \o DepsOf(n, Tail(edges))
    ELSE DepsOf(n, Tail(edges))

\* The set S as an ascending list.
RECURSIVE Ascending(_)
Ascending(S) ==
    IF S = {} THEN <<>>
    ELSE LET m == CHOOSE x \in S : \A y \in S : x <= y
         IN <<m>> \o Ascending(S \ {m})

\* The images reachable from the set T along the edges of dep (T included).
RECURSIVE Reach(_, _)
Reach(T, dep) ==
    LET next == T \cup UNION {Range(dep[n]) : n \in T}
    IN IF next = T THEN T ELSE Reach(next, dep)

----------------------------------------------------------------------------
(* Repository.resolve_dependencies *)

\* The names on the current depth-first path: the `path` argument of the
\* next nested call of visit().
path == [i \in 1..Len(stack) |-> stack[i].name]

\* od[key] = value as it would be if the key were never entered.
OrderedDictSkip(od, key) == od

\* od[key] = value on an OrderedDict: a new key goes last, a key already
\* present keeps its place.
OrderedDictSet(od, key) == IF InSeq(key, od) THEN od ELSE Append(od, key)

\* visit() as it would be with the image entered into resolved before its
\* dependencies are visited.
visit_preorder(name, caller) ==
    IF InSeq(name, resolved)
    THEN /\ stack' = caller
         /\ UNCHANGED <<resolved, visiting, pc, diagram>>
    ELSE IF name \in visiting
    THEN /\ pc' = "circular"
         /\ diagram' = path \o <<name>>
         /\ stack' = <<>>
         /\ UNCHANGED <<resolved, visiting>>
    ELSE /\ visiting' = visiting \cup {name}
         /\ resolved' = OrderedDictSet(resolved, name)
         /\ stack' = Append(caller, [name |-> name, todo |-> sorted(depends_on[name])])
         /\ UNCHANGED <<pc, diagram>>

\* visit() as it would be with the error reporting `path` alone.
visit_short_diagram(name, caller) ==
    IF InSeq(name, resolved)
    THEN /\ stack' = caller
         /\ UNCHANGED <<resolved, visiting, pc, diagram>>
    ELSE IF name \in visiting
    THEN /\ pc' = "circular"
         /\ diagram' = path
         /\ stack' = <<>>
         /\ UNCHANGED <<resolved, visiting>>
    ELSE /\ visiting' = visiting \cup {name}
         /\ stack' = Append(caller, [name |-> name, todo |-> sorted(depends_on[name])])
         /\ UNCHANGED <<resolved, pc, diagram>>

\* visit(image, path), entered with `caller` as the frames that remain once
\* the call has been issued: the two early exits, then visiting.add.
visit(name, caller) ==
    IF InSeq(name, resolved)
    THEN /\ stack' = caller
         /\ UNCHANGED <<resolved, visiting, pc, diagram>>
    ELSE IF name \in visiting
    THEN /\ pc' = "circular"
         /\ diagram' = path \o <<name>>
         /\ stack' = <<>>
         /\ UNCHANGED <<resolved, visiting>>
    ELSE /\ visiting' = visiting \cup {name}
         /\ stack' = Append(caller, [name |-> name, todo |-> sorted(depends_on[name])])
         /\ UNCHANGED <<resolved, pc, diagram>>

\* for target_image in sorted(targets, ...): visit(target_image)
VisitTarget ==
    /\ pc = "resolve"
    /\ stack = <<>>
    /\ pending # <<>>
    /\ pending' = Tail(pending)
    /\ visit(Head(pending), <<>>)
    /\ UNCHANGED <<sideVars, repoVars, envVars, _dependencies, acquired, callVars>>

\* for d in sorted(image.depends_on): visit(self.images[d], path + [image.name])
VisitChild ==
    /\ pc = "resolve"
    /\ stack # <<>>
    /\ stack[Len(stack)].todo # <<>>
    /\ LET top == stack[Len(stack)]
           caller == [stack EXCEPT ![Len(stack)].todo = Tail(top.todo)]
       IN visit(Head(top.todo), caller)
    /\ UNCHANGED <<sideVars, repoVars, pending, envVars, _dependencies, acquired, callVars>>

\* resolved[image.name] = image, then visit() returns
VisitReturn ==
    /\ pc = "resolve"
    /\ stack # <<>>
    /\ stack[Len(stack)].todo = <<>>
    /\ resolved' = OrderedDictSet(resolved, stack[Len(stack)].name)
    /\ stack' = SubSeq(stack, 1, Len(stack) - 1)
    /\ UNCHANGED <<sideVars, repoVars, pc, pending, visiting, diagram, envVars,
                   _dependencies, acquired, callVars>>

----------------------------------------------------------------------------
(* DependencySet.__init__ *)

\* The image store and the registry are outside the program, and nothing
\* depends on them before DependencySet.__init__ lists the store: what they
\* hold is drawn when it does.  An image that is not publishable is never
\* pushed, so the registry holds publishable images only.

\* docker_images(): the specs in the local image store.
docker_images(store) == store

\* self._dependencies[d.name] = image for each d of dependencies, in order:
\* the keys of the dict afterwards.
RECURSIVE DependencySetKeys(_, _)
DependencySetKeys(keys, dependencies) ==
    IF dependencies = <<>> THEN keys
    ELSE DependencySetKeys(OrderedDictSet(keys, Head(dependencies)), Tail(dependencies))

\* image.acquired = image.spec() in known_images
InitiallyAcquired(d, known_images) == d \in known_images

\* dependencies=(self._dependencies[d0] for d0 in d.depends_on) raises
\* KeyError when some d0 has not been inserted before d.
LookupFails(dependencies) ==
    \E i \in 1..Len(dependencies) :
        \E d0 \in Range(depends_on[dependencies[i]]) :
            ~InSeq(d0, SubSeq(dependencies, 1, i - 1))

\* return DependencySet(resolved.values()), once the loop over the targets
\* has ended
DependencySetInit ==
    /\ pc = "resolve"
    /\ stack = <<>>
    /\ pending = <<>>
    /\ \E store \in SUBSET Range(resolved),
          reg \in SUBSET {n \in Range(resolved) : publish[n]} :
         /\ local' = store
         /\ registry' = reg
         /\ LET known_images == docker_images(store)
            IN acquired' = [n \in Names |->
                              /\ InSeq(n, resolved)
                              /\ ~LookupFails(resolved)
                              /\ InitiallyAcquired(n, known_images)]
    /\ IF LookupFails(resolved)
       THEN /\ pc' = "raised"
            /\ error' = "KeyError"
            /\ UNCHANGED _dependencies
       ELSE /\ _dependencies' = DependencySetKeys(<<>>, resolved)
            /\ pc' = "idle"
            /\ UNCHANGED error
    \* resolve_dependencies is left: its argument and locals are gone
    /\ targets' = <<>>
    /\ resolved' = <<>>
    /\ visiting' = {}
    /\ UNCHANGED <<sideVars, depends_on, publish, pending, stack, diagram, op, returned,
                   idx, deps_to_build, pulls, built, post_build, called_back,
                   images_to_push, pushes, answers, ret>>

----------------------------------------------------------------------------
(* ResolvedImage *)

\* is_docker_image_pushed(name): docker manifest inspect exits with 0.
is_docker_image_pushed(d) == d \in registry

\* ResolvedImage.is_published_if_necessary
is_published_if_necessary(d) == publish[d] /\ is_docker_image_pushed(d)

\* The exits docker pull can take: it finds the spec only in the registry,
\* and can fail for any spec.
PullOutcomes(d) == IF d \in registry THEN {TRUE, FALSE} ELSE {FALSE}

\* spawn.run_with_retries(fn, max_duration): fn is run again while it fails
\* and the budget lasts; a failure that outlasts the budget is raised.
\* `ok` is whether some attempt within the budget succeeded.
run_with_retries(ok) == IF ok THEN "returned" ELSE "raised"

\* try_pull as it would be with the flag set before the pull is attempted.
try_pull_flag_first(d, ok) ==
    IF ~acquired[d]
    THEN IF run_with_retries(ok) = "returned"
         THEN [acquired |-> TRUE, pulled |-> TRUE, raised |-> FALSE, value |-> TRUE]
         ELSE [acquired |-> TRUE, pulled |-> TRUE, raised |-> TRUE, value |-> FALSE]
    ELSE [acquired |-> acquired[d], pulled |-> FALSE, raised |-> FALSE,
          value |-> acquired[d]]

\* try_pull as it would be if it pulled in any case and kept the outcome of
\* the pull in the flag.
try_pull_assign(d, ok) ==
    IF run_with_retries(ok) = "returned"
    THEN [acquired |-> TRUE, pulled |-> TRUE, raised |-> FALSE, value |-> TRUE]
    ELSE [acquired |-> FALSE, pulled |-> TRUE, raised |-> TRUE, value |-> FALSE]

\* try_pull as it would be without the test of self.acquired.
try_pull_always(d, ok) ==
    IF run_with_retries(ok) = "returned"
    THEN [acquired |-> TRUE, pulled |-> TRUE, raised |-> FALSE, value |-> TRUE]
    ELSE [acquired |-> acquired[d], pulled |-> TRUE, raised |-> TRUE, value |-> FALSE]

\* ResolvedImage.try_pull, `ok` being the exit of the pull: the acquired
\* flag afterwards, whether docker pull ran, how the call ended and the
\* value returned.
try_pull(d, ok) ==
    IF ~acquired[d]
    THEN IF run_with_retries(ok) = "returned"
         THEN [acquired |-> TRUE, pulled |-> TRUE, raised |-> FALSE, value |-> TRUE]
         ELSE [acquired |-> acquired[d], pulled |-> TRUE, raised |-> TRUE,
               value |-> FALSE]
    ELSE [acquired |-> acquired[d], pulled |-> FALSE, raised |-> FALSE,
          value |-> acquired[d]]

\* A build that is not run: nothing is built and the local store is unchanged.
build_skipped(d, ok) ==
    /\ built' = built
    /\ UNCHANGED <<local, acquired, registry>>

\* ResolvedImage.build on image d, `ok` being the exit of docker build: the
\* image is tagged with its spec in the local store.  No line of build
\* touches ResolvedImage.acquired.
build(d, ok) ==
    /\ built' = Append(built, d)
    /\ local' = IF ok THEN local \cup {d} ELSE local
    /\ UNCHANGED <<acquired, registry>>

\* The exception leaves the method; nothing catches it on the way up.
Raise(kind) ==
    /\ pc' = "raised"
    /\ error' = kind

----------------------------------------------------------------------------
(* DependencySet.acquire *)

\* A method of the DependencySet is called: the locals of the call are fresh.
Call(name) ==
    /\ pc = "idle"
    /\ op' = name
    /\ idx' = IF name = "check" THEN 0 ELSE 1
    /\ pulls' = <<>>
    /\ built' = <<>>
    /\ called_back' = <<>>
    /\ images_to_push' = <<>>
    /\ pushes' = <<>>
    /\ UNCHANGED <<sideVars, repoVars, resolveVars, envVars, _dependencies, acquired, error>>

\* The method returns to its caller: its locals are gone.  A return of
\* acquire is remembered.
Return(name) ==
    /\ pc' = "idle"
    /\ returned' = IF name = "acquire" THEN returned \cup {name} ELSE returned
    /\ idx' = 0
    /\ deps_to_build' = <<>>
    /\ images_to_push' = <<>>
    /\ pushes' = <<>>
    /\ post_build' = FALSE

\* max_duration is given or defaults to 60 (CI) or 0
AcquireCall ==
    /\ Call("acquire")
    /\ pc' = "acquire_pull"
    /\ deps_to_build' = <<>>
    /\ answers' = <<>>
    /\ ret' = "none"
    /\ post_build' = FALSE
    /\ UNCHANGED returned

\* deps_to_build = [dep for dep in self if not dep.try_pull(max_duration)]
AcquirePull ==
    /\ pc = "acquire_pull"
    /\ idx <= Len(_dependencies)
    /\ LET dep == _dependencies[idx]
       IN \E ok \in PullOutcomes(dep) :
            LET r == try_pull(dep, ok)
            IN /\ acquired' = [acquired EXCEPT ![dep] = r.acquired]
               /\ pulls' = IF r.pulled THEN Append(pulls, [name |-> dep, ok |-> ok])
                           ELSE pulls
               /\ local' = IF r.pulled /\ ok THEN local \cup {dep} ELSE local
               /\ IF r.raised
                  THEN /\ Raise("pull")
                       /\ UNCHANGED <<idx, deps_to_build>>
                  ELSE /\ idx' = idx + 1
                       /\ deps_to_build' = IF ~r.value THEN Append(deps_to_build, dep)
                                           ELSE deps_to_build
                       /\ UNCHANGED <<pc, error>>
    /\ UNCHANGED <<sideVars, repoVars, resolveVars, registry, _dependencies, op, returned,
                   built, post_build, called_back, images_to_push, pushes,
                   answers, ret>>

\* prep = self._prepare_batch(deps_to_build)
AcquirePrepare ==
    /\ pc = "acquire_pull"
    /\ idx > Len(_dependencies)
    /\ pc' = "acquire_build"
    /\ idx' = 1
    /\ UNCHANGED <<sideVars, repoVars, resolveVars, envVars, _dependencies, acquired, op,
                   returned, deps_to_build, pulls, built, post_build,
                   called_back, images_to_push, pushes, answers, ret, error>>

\* for dep in deps_to_build: dep.build(prep), and the return after the loop
AcquireBuild ==
    /\ pc = "acquire_build"
    /\ IF idx <= Len(deps_to_build)
       THEN \E ok \in BOOLEAN :
              /\ build(deps_to_build[idx], ok)
              /\ IF ok THEN idx' = idx + 1 /\ UNCHANGED <<pc, error>>
                       ELSE Raise("build") /\ UNCHANGED idx
              /\ UNCHANGED returned
              /\ UNCHANGED <<op, deps_to_build, pulls, post_build, called_back,
                             images_to_push, pushes, answers>>
       ELSE /\ Return("acquire")
            /\ pulls' = <<>>
            /\ built' = <<>>
            /\ called_back' = <<>>
            /\ answers' = <<>>
            /\ UNCHANGED <<envVars, acquired, error, op>>
    /\ UNCHANGED <<sideVars, repoVars, resolveVars, _dependencies, ret>>

----------------------------------------------------------------------------
(* DependencySet.ensure *)

\* [dep for dep in deps if not dep.is_published_if_necessary()]
RECURSIVE NotPublished(_)
NotPublished(deps) ==
    IF deps = <<>> THEN <<>>
    ELSE (IF ~is_published_if_necessary(Head(deps)) THEN <<Head(deps)>> ELSE <<>>)
         \o NotPublished(Tail(deps))

\* The answers is_published_if_necessary gives for the images of deps.
Answers(deps) ==
    [i \in 1..Len(deps) |->
        [name |-> deps[i], value |-> is_published_if_necessary(deps[i])]]

\* deps_to_build = [...]; prep = self._prepare_batch(deps_to_build);
\* images_to_push = []
EnsureCall ==
    /\ Call("ensure")
    /\ \E cb \in BOOLEAN : post_build' = cb
    /\ LET deps == NotPublished(_dependencies)
       IN /\ pc' = "ensure_build"
          /\ deps_to_build' = deps
          /\ answers' = Answers(_dependencies)
    /\ ret' = "none"
    /\ UNCHANGED returned

\* dep.build(prep)
EnsureBuild ==
    /\ pc = "ensure_build"
    /\ idx <= Len(deps_to_build)
    /\ \E ok \in BOOLEAN :
         /\ build(deps_to_build[idx], ok)
         /\ IF ok THEN pc' = "ensure_post_build" /\ UNCHANGED error
                  ELSE Raise("build")
    /\ UNCHANGED <<sideVars, repoVars, resolveVars, _dependencies, op, returned, idx,
                   deps_to_build, pulls, post_build, called_back,
                   images_to_push, pushes, answers, ret>>

\* The append as it would be without the test of dep.publish.
to_push_always(images, dep) == Append(images, dep)

\* if dep.publish: images_to_push.append(dep.spec())
to_push(images, dep) == IF publish[dep] THEN Append(images, dep) ELSE images

\* if post_build: post_build(dep), which may raise; then the append to
\* images_to_push
EnsurePostBuild ==
    /\ pc = "ensure_post_build"
    /\ LET dep == deps_to_build[idx]
       IN \E ok \in (IF post_build THEN BOOLEAN ELSE {TRUE}) :
            /\ called_back' = IF post_build THEN Append(called_back, dep)
                              ELSE called_back
            /\ IF ok
               THEN /\ images_to_push' = to_push(images_to_push, dep)
                    /\ idx' = idx + 1
                    /\ pc' = "ensure_build"
                    /\ UNCHANGED error
               ELSE /\ Raise("post_build")
                    /\ UNCHANGED <<images_to_push, idx>>
    /\ UNCHANGED <<sideVars, repoVars, resolveVars, envVars, _dependencies, acquired, op,
                   returned, deps_to_build, pulls, built, post_build, pushes,
                   answers, ret>>

\* ui.section("Pushing images"); pushes = []
EnsurePushSection ==
    /\ pc = "ensure_build"
    /\ idx > Len(deps_to_build)
    /\ pc' = "ensure_launch"
    /\ idx' = 1
    /\ UNCHANGED <<sideVars, repoVars, resolveVars, envVars, _dependencies, acquired, op,
                   returned, deps_to_build, pulls, built, post_build,
                   called_back, images_to_push, pushes, answers, ret, error>>

\* push = subprocess.Popen("docker push ..."); pushes.append(push)
EnsureLaunch ==
    /\ pc = "ensure_launch"
    /\ idx <= Len(images_to_push)
    /\ pushes' = Append(pushes, [image |-> images_to_push[idx], state |-> "running",
                                 returncode |-> 0, waited |-> FALSE])
    /\ idx' = idx + 1
    /\ UNCHANGED <<sideVars, repoVars, resolveVars, envVars, _dependencies, acquired, op,
                   returned, deps_to_build, pulls, built, post_build,
                   called_back, images_to_push, answers, ret, error, pc>>

\* The loop that launches the pushes has ended.
EnsureLaunched ==
    /\ pc = "ensure_launch"
    /\ idx > Len(images_to_push)
    /\ pc' = "ensure_wait"
    /\ idx' = 1
    /\ UNCHANGED <<sideVars, repoVars, resolveVars, envVars, _dependencies, acquired, op,
                   returned, deps_to_build, pulls, built, post_build,
                   called_back, images_to_push, pushes, answers, ret, error>>

\* The exit status of the shell command "docker push <spec> | cat" that
\* Popen(..., shell=True) runs: that of a pipeline is the status of its last
\* command, cat.
pipeline_status(docker_push, cat) == cat

\* A push process ends, whatever the program is doing.  docker push exits
\* with 0 once the spec is in the registry and with another code when the
\* push failed; cat exits with 0 unless it cannot write its output.
PushExit ==
    \E k \in 1..Len(pushes), docker_push \in {0, 1}, cat \in {0, 1} :
        /\ pushes[k].state = "running"
        /\ pushes' = [pushes EXCEPT ![k].state = "exited",
                                    ![k].returncode = pipeline_status(docker_push, cat)]
        /\ registry' = IF docker_push = 0 THEN registry \cup {pushes[k].image}
                       ELSE registry
        /\ UNCHANGED <<sideVars, repoVars, resolveVars, local, _dependencies, acquired, op,
                       returned, idx, deps_to_build, pulls, built, post_build,
                       called_back, images_to_push, answers, ret, error, pc>>

\* if returncode: raise subprocess.CalledProcessError(...)
push_failed(returncode) == returncode # 0

\* returncode = push.wait(), which blocks until the process has ended
EnsureWait ==
    /\ pc = "ensure_wait"
    /\ idx <= Len(pushes)
    /\ pushes[idx].state = "exited"
    /\ pushes' = [pushes EXCEPT ![idx].waited = TRUE]
    /\ IF push_failed(pushes[idx].returncode)
       THEN Raise("push") /\ UNCHANGED idx
       ELSE idx' = idx + 1 /\ UNCHANGED <<pc, error>>
    /\ UNCHANGED <<sideVars, repoVars, resolveVars, envVars, _dependencies, acquired, op,
                   returned, deps_to_build, pulls, built, post_build,
                   called_back, images_to_push, answers, ret>>

\* The loop over pushes has ended: ensure returns.
EnsureReturn ==
    /\ pc = "ensure_wait"
    /\ idx > Len(pushes)
    /\ Return("ensure")
    /\ pulls' = <<>>
    /\ built' = <<>>
    /\ called_back' = <<>>
    /\ answers' = <<>>
    /\ UNCHANGED <<sideVars, repoVars, resolveVars, envVars, _dependencies, acquired, op,
                   ret, error>>

----------------------------------------------------------------------------
(* DependencySet.check *)

\* all(...) over a list of answers: it stops at the first False.
RECURSIVE AllPrefix(_)
AllPrefix(ans) ==
    IF ans = <<>> THEN <<>>
    ELSE IF ~Head(ans).value THEN <<Head(ans)>>
    ELSE <<Head(ans)>> \o AllPrefix(Tail(ans))

\* return all(dep.is_published_if_necessary() for dep in self)
Check ==
    /\ Call("check")
    /\ LET seen == AllPrefix(Answers(_dependencies))
       IN /\ answers' = seen
          /\ ret' = (\A i \in 1..Len(seen) : seen[i].value)
    /\ pc' = "idle"
    /\ UNCHANGED <<returned, deps_to_build, post_build>>

----------------------------------------------------------------------------
(* DependencySet._prepare_batch and the pre-image loop of ResolvedImage.build *)

\* The classes of pre-image actions that Image.__init__ creates.
PreImageTypes == {"Copy", "CargoBuild"}

\* The pre-image instances of the images of a list, image after image: an
\* instance is named by its image and its place in Image.pre_images.
RECURSIVE Instances(_)
Instances(list) ==
    IF list = <<>> THEN <<>>
    ELSE [i \in 1..Len(pre_images[Head(list)]) |-> <<Head(list), i>>]
         \o Instances(Tail(list))

\* type(pre_image)
type(inst) == pre_images[inst[1]][inst[2]]

\* Whether the dict (a list of items) has the key.
HasKey(items, cls) == \E j \in 1..Len(items) : items[j].cls = cls

\* The item of the dict with the key.
Item(items, cls) == items[CHOOSE j \in 1..Len(items) : items[j].cls = cls]

\* The grouping as it would be with each instance replacing the list of its
\* class.
defaultdict_replace(dd, cls, inst) ==
    IF HasKey(dd, cls)
    THEN [j \in 1..Len(dd) |->
            IF dd[j].cls = cls THEN [dd[j] EXCEPT !.instances = <<inst>>] ELSE dd[j]]
    ELSE Append(dd, [cls |-> cls, instances |-> <<inst>>])

\* pre_images[type(pre_image)].append(pre_image) on a defaultdict(list): a
\* class seen for the first time gets a new list, after the other keys.
defaultdict_append(dd, cls, inst) ==
    IF HasKey(dd, cls)
    THEN [j \in 1..Len(dd) |->
            IF dd[j].cls = cls THEN [dd[j] EXCEPT !.instances = Append(@, inst)]
            ELSE dd[j]]
    ELSE Append(dd, [cls |-> cls, instances |-> <<inst>>])

\* The two nested loops that fill the defaultdict.
RECURSIVE Group(_, _)
Group(dd, insts) ==
    IF insts = <<>> THEN dd
    ELSE Group(defaultdict_append(dd, type(Head(insts)), Head(insts)), Tail(insts))

\* What prepare_batch of a class can do with a list of instances that is not
\* empty: PreImage.prepare_batch, which Copy inherits, returns None;
\* CargoBuild.prepare_batch returns the output captured from cargo, or
\* raises when cargo fails.
PrepareOutcomes(cls) ==
    IF cls = "CargoBuild" THEN {"json_a", "json_b", "raised"} ELSE {"None"}

\* pre_image_prep[cls] = value
DictSet(items, cls, value) ==
    IF HasKey(items, cls)
    THEN [j \in 1..Len(items) |->
            IF items[j].cls = cls THEN [items[j] EXCEPT !.value = value] ELSE items[j]]
    ELSE Append(items, [cls |-> cls, value |-> value])

\* pre_images = collections.defaultdict(list) and the loops over images and
\* their pre_images
PrepareBatchGroup ==
    /\ pc = "prepare_group"
    /\ grouped' = Group(<<>>, Instances(batch_images))
    /\ pc' = "prepare_call"
    /\ at' = <<1, 1>>
    /\ UNCHANGED <<cmdVars, otherVars, rd, extraVars, fpVars, progVars, error, pre_images,
                   batch_images, pre_image_prep,
                   prepare_calls, runs>>

\* for cls, instances in pre_images.items():
\*     pre_image_prep[cls] = pre_image.prepare_batch(instances)
PrepareBatchCall ==
    /\ pc = "prepare_call"
    /\ at[1] <= Len(grouped)
    /\ LET cls == grouped[at[1]].cls
           instances == grouped[at[1]].instances
       IN \E out \in PrepareOutcomes(cls) :
            /\ prepare_calls' = Append(prepare_calls,
                   [cls |-> cls, instances |-> instances, value |-> out])
            /\ IF out = "raised"
               THEN /\ Raise("prepare")
                    /\ UNCHANGED <<pre_image_prep, at>>
               ELSE /\ pre_image_prep' = DictSet(pre_image_prep, cls, out)
                    /\ at' = <<at[1] + 1, 1>>
                    /\ UNCHANGED <<pc, error>>
    /\ UNCHANGED <<cmdVars, otherVars, rd, extraVars, fpVars, progVars, pre_images,
                   batch_images, grouped, runs>>

\* return pre_image_prep; the caller goes on to its loop over deps_to_build
PrepareBatchReturn ==
    /\ pc = "prepare_call"
    /\ at[1] > Len(grouped)
    /\ pc' = "batch_build"
    /\ grouped' = <<>>
    /\ at' = <<1, 1>>
    /\ UNCHANGED <<cmdVars, otherVars, rd, extraVars, fpVars, progVars, error, pre_images,
                   batch_images, pre_image_prep,
                   prepare_calls, runs>>

\* ResolvedImage.build: for pre_image in self.image.pre_images:
\*     pre_image.run(prep[type(pre_image)])
\* The lookup raises KeyError for a class that is not in prep; run can fail.
BuildRun ==
    /\ pc = "batch_build"
    /\ at[1] <= Len(batch_images)
    /\ at[2] <= Len(pre_images[batch_images[at[1]]])
    /\ LET inst == <<batch_images[at[1]], at[2]>>
           cls == type(inst)
       IN IF ~HasKey(pre_image_prep, cls)
          THEN /\ Raise("KeyError")
               /\ UNCHANGED <<runs, at>>
          ELSE \E ok \in BOOLEAN :
                 /\ runs' = Append(runs, [inst |-> inst, cls |-> cls,
                                          prep |-> Item(pre_image_prep, cls).value])
                 /\ IF ok THEN at' = <<at[1], at[2] + 1>> /\ UNCHANGED <<pc, error>>
                          ELSE Raise("run") /\ UNCHANGED at
    /\ UNCHANGED <<cmdVars, otherVars, rd, extraVars, fpVars, progVars, pre_images,
                   batch_images, grouped, pre_image_prep,
                   prepare_calls>>

\* ResolvedImage.build: the pre-images have run; docker build, which can
\* fail; then the next image of the caller's loop.
BuildDocker ==
    /\ pc = "batch_build"
    /\ at[1] <= Len(batch_images)
    /\ at[2] > Len(pre_images[batch_images[at[1]]])
    /\ \E ok \in BOOLEAN :
         IF ok THEN at' = <<at[1] + 1, 1>> /\ UNCHANGED <<pc, error>>
               ELSE Raise("build") /\ UNCHANGED at
    /\ UNCHANGED <<cmdVars, otherVars, rd, extraVars, fpVars, progVars, pre_images,
                   batch_images, grouped, pre_image_prep,
                   prepare_calls, runs>>

\* The caller's loop over deps_to_build has ended.
BuildsEnd ==
    /\ pc = "batch_build"
    /\ at[1] > Len(batch_images)
    /\ pc' = "batch_done"
    /\ UNCHANGED <<cmdVars, otherVars, rd, extraVars, fpVars, progVars, error, batchVars>>

----------------------------------------------------------------------------
(* RepositoryDetails and CargoPreImage.extra *)

\* Two runs of the program are told apart where fingerprints are compared.
Runs == {1, 2}

Archs == {"x86_64", "aarch64"}

\* The members of rustc_flags.Sanitizer, by value.
Sanitizers == {"none", "address", "hwaddress", "cfi", "thread", "leak", "memory"}

\* A string is the list of its characters.
release_str == <<"r", "e", "l", "e", "a", "s", "e">>
coverage_str == <<"c", "o", "v", "e", "r", "a", "g", "e">>

\* Sanitizer.value: the lowercase name of the member.
SanitizerValue(sanitizer) ==
    CASE sanitizer = "address"   -> <<"a", "d", "d", "r", "e", "s", "s">>
      [] sanitizer = "hwaddress" -> <<"h", "w", "a", "d", "d", "r", "e", "s", "s">>
      [] sanitizer = "cfi"       -> <<"c", "f", "i">>
      [] sanitizer = "thread"    -> <<"t", "h", "r", "e", "a", "d">>
      [] sanitizer = "leak"      -> <<"l", "e", "a", "k">>
      [] sanitizer = "memory"    -> <<"m", "e", "m", "o", "r", "y">>
      [] OTHER                   -> <<"n", "o", "n", "e">>

\* The characters that occur, in code point order.
Alphabet == <<",", "a", "c", "d", "e", "f", "g", "h", "i", "k", "l", "m", "n", "o",
              "r", "s", "t", "v", "w", "y">>

\* ord(c), up to an increasing renumbering.
Ord(c) == CHOOSE i \in 1..Len(Alphabet) : Alphabet[i] = c

\* s < t for two strings, as Python compares them.
RECURSIVE StrLess(_, _)
StrLess(a, b) ==
    IF b = <<>> THEN FALSE
    ELSE IF a = <<>> THEN TRUE
    ELSE IF Head(a) = Head(b) THEN StrLess(Tail(a), Tail(b))
    ELSE Ord(Head(a)) < Ord(Head(b))

RECURSIVE StrInsert(_, _)
StrInsert(x, list) ==
    IF list = <<>> THEN <<x>>
    ELSE IF ~StrLess(Head(list), x) THEN <<x>> \o list
    ELSE <<Head(list)>> \o StrInsert(x, Tail(list))

\* list.sort() on a list of strings
RECURSIVE StrSort(_)
StrSort(list) == IF list = <<>> THEN <<>> ELSE StrInsert(Head(list), StrSort(Tail(list)))

\* ",".join(list)
RECURSIVE Join(_)
Join(list) ==
    IF list = <<>> THEN <<>>
    ELSE IF Len(list) = 1 THEN Head(list)
    ELSE Head(list) \o <<",">> \o Join(Tail(list))

\* flags += string on a list: the list is extended with the elements of the
\* iterable on the right, which for a string are its characters.
iadd(list, string) == list \o [i \in 1..Len(string) |-> <<string[i]>>]

\* CargoPreImage.extra for the details d: the three tests, the sort, the join.
ExtraFlags(d) ==
    LET f1 == IF d.release_mode THEN iadd(<<>>, release_str) ELSE <<>>
        f2 == IF d.coverage THEN iadd(f1, coverage_str) ELSE f1
        f3 == IF d.sanitizer # "none" THEN iadd(f2, SanitizerValue(d.sanitizer)) ELSE f2
    IN StrSort(f3)

CargoExtra(d) == Join(ExtraFlags(d))

\* PreImage.extra, which Copy inherits, and CargoPreImage.extra
extra(cls, d) == IF cls = "CargoBuild" THEN CargoExtra(d) ELSE <<>>

\* flags: list[str] = []; if self.rd.release_mode: flags += "release"
ExtraRelease ==
    /\ pc = "extra_release"
    /\ flags' = IF rd[1].release_mode THEN iadd(<<>>, release_str) ELSE <<>>
    /\ pc' = "extra_coverage"
    /\ UNCHANGED <<cmdVars, otherVars, fpVars, progVars, error, batchVars, rd, extra_ret>>

\* if self.rd.coverage: flags += "coverage"
ExtraCoverage ==
    /\ pc = "extra_coverage"
    /\ flags' = IF rd[1].coverage THEN iadd(flags, coverage_str) ELSE flags
    /\ pc' = "extra_sanitizer"
    /\ UNCHANGED <<cmdVars, otherVars, fpVars, progVars, error, batchVars, rd, extra_ret>>

\* if self.rd.sanitizer != Sanitizer.none: flags += self.rd.sanitizer.value
ExtraSanitizer ==
    /\ pc = "extra_sanitizer"
    /\ flags' = IF rd[1].sanitizer # "none"
                THEN iadd(flags, SanitizerValue(rd[1].sanitizer)) ELSE flags
    /\ pc' = "extra_sort"
    /\ UNCHANGED <<cmdVars, otherVars, fpVars, progVars, error, batchVars, rd, extra_ret>>

\* flags.sort(); return ",".join(flags)
ExtraReturn ==
    /\ pc = "extra_sort"
    /\ flags' = StrSort(flags)
    /\ extra_ret' = Join(StrSort(flags))
    /\ pc' = "extra_done"
    /\ UNCHANGED <<cmdVars, otherVars, fpVars, progVars, error, batchVars, rd>>

----------------------------------------------------------------------------
(* Files, git.expand_globs, ResolvedImage.inputs and ResolvedImage.fingerprint *)

\* Image.path of the images, relative to the root of the repository.
ImagePaths == <<"img1", "img2", "img3", "img4", "img5">>
ImagePath(n) == ImagePaths[n]

\* Copy.source of the copy pre-images.
CopySource == "libs"

\* A file is [dir, name, lnk, xusr, content]: the directory it is in ("." is
\* the root), its name, the S_ISLNK and S_IXUSR tests of its st_mode, and
\* what it holds.  A path is [dir, name].

\* A file that is neither a link nor executable.
PlainFile(dir, name) ==
    [dir |-> dir, name |-> name, lnk |-> FALSE, xusr |-> FALSE, content |-> "v1"]

\* fnmatch of a name against a pattern.
GlobMatch(pattern, name) ==
    \/ pattern \in {"*", "**"}
    \/ pattern = "*.txt" /\ name \in {"new.txt", "old.txt"}
    \/ pattern = name

\* The path of a file relative to the directory root, which holds it.
Relative(f, root) ==
    IF root = "." THEN [dir |-> f.dir, name |-> f.name]
    ELSE [dir |-> ".", name |-> f.name]

\* git.expand_globs(root, *specs): the files git knows under the directory
\* root that match one of the pathspecs, as paths relative to root.
expand_globs(files, root, pathspecs) ==
    {p \in {Relative(f, root) : f \in {g \in files : root = "." \/ g.dir = root}} :
        \E sp \in pathspecs : p.dir = sp.dir /\ GlobMatch(sp.pattern, p.name)}

\* A path handed to expand_globs as a pathspec.
AsPathspec(p) == [dir |-> p.dir, pattern |-> p.name]

\* Copy.inputs: expand_globs(self.rd.root / self.source, self.matching)
CopyInputs(files) ==
    expand_globs(files, CopySource, {[dir |-> ".", pattern |-> matching]})

\* CargoPreImage.inputs: the fixed files of the cargo workspace.
CargoInputs == {[dir |-> ".", name |-> "Cargo.toml"], [dir |-> ".", name |-> "Cargo.lock"]}

\* PreImage.inputs of an instance of the class
PreImageInputs(files, cls) == IF cls = "Copy" THEN CopyInputs(files) ELSE CargoInputs

\* ResolvedImage.inputs(): the files under the image's path and the inputs of
\* its pre-images.
inputs(files, n) ==
    expand_globs(files, ".", {[dir |-> ImagePath(n), pattern |-> "**"]})
    \cup UNION {PreImageInputs(files, pre_images[n][i]) : i \in 1..Len(pre_images[n])}

\* The file at a path relative to the root of the repository.
FileAt(files, p) == CHOOSE f \in files : f.dir = p.dir /\ f.name = p.name

\* The simplified file mode, after Git's rules.
simplified_mode(f) ==
    IF f.lnk THEN "0o120000" ELSE IF f.xusr THEN "0o100755" ELSE "0o100644"

\* file_mode.to_bytes(2, byteorder="big")
to_bytes(file_mode) ==
    CASE file_mode = "0o120000" -> <<"a0", "00">>
      [] file_mode = "0o100755" -> <<"81", "ed">>
      [] OTHER                  -> <<"81", "a4">>

\* sorted() on paths: the order of the directories, then of the names.
DirOrder == <<".", "img1", "img2", "img3", "img4", "img5", "libs">>
NameOrder == <<"Cargo.lock", "Cargo.toml", "Dockerfile", "mzbuild.yml", "new.md",
               "new.txt", "old.txt">>
Rank(list, x) == CHOOSE i \in 1..Len(list) : list[i] = x
PathLess(p, q) ==
    \/ Rank(DirOrder, p.dir) < Rank(DirOrder, q.dir)
    \/ p.dir = q.dir /\ Rank(NameOrder, p.name) < Rank(NameOrder, q.name)

RECURSIVE SortedPaths(_)
SortedPaths(paths) ==
    IF paths = {} THEN <<>>
    ELSE LET first == CHOOSE p \in paths : \A q \in paths \ {p} : PathLess(p, q)
         IN <<first>> \o SortedPaths(paths \ {first})

\* The bytes fed to self_hash for one file: mode, path, digest of the
\* content, zero byte.  The hash is taken as collision-free: the digest of
\* the content stands for the content.
FileBytes(files, p) ==
    LET f == FileAt(files, p)
    IN to_bytes(simplified_mode(f)) \o <<p.dir, p.name, f.content, "NUL">>

RECURSIVE FilesBytes(_, _)
FilesBytes(files, paths) ==
    IF paths = <<>> THEN <<>>
    ELSE FileBytes(files, Head(paths)) \o FilesBytes(files, Tail(paths))

\* for pre_image in self.image.pre_images: extra(), zero byte
RECURSIVE ExtraBytes(_, _)
ExtraBytes(classes, d) ==
    IF classes = <<>> THEN <<>>
    ELSE extra(Head(classes), d) \o <<"NUL">> \o ExtraBytes(Tail(classes), d)

\* str(bool)
BoolStr(b) == IF b THEN "True" ELSE "False"

\* The bytes of the axes as they would be without the architecture.
axes_bytes_no_arch(d) ==
    <<"coverage=", BoolStr(d.coverage), "sanitizer=", d.sanitizer>>

\* f"arch={arch}", f"coverage={coverage}", f"sanitizer={sanitizer}"
axes_bytes(d) ==
    <<"arch=", d.arch, "coverage=", BoolStr(d.coverage), "sanitizer=", d.sanitizer>>

\* self_hash.digest(): the hash being collision-free, the bytes fed to it.
self_hash(files, d, n) ==
    FilesBytes(files, SortedPaths(expand_globs(files, ".",
                   {AsPathspec(p) : p \in inputs(files, n)})))
    \o ExtraBytes(pre_images[n], d)
    \o axes_bytes(d)

\* The lookup in the cache as it would be without @cache.
cache_miss(cache, n) == FALSE

\* @cache: whether a value is kept for the image.  An image that has no
\* value yet is marked by an entry that is no fingerprint.
NoFp == [self_hash |-> <<>>, deps |-> <<>>]
cache_hit(cache, n) == cache[n] # NoFp

\* The contribution of the dependencies as it would be without them.
dependency_pairs_none(deps, values) == <<>>

\* for dep in sorted(self.dependencies.values(), key=name): the name and
\* the fingerprint of the dependency
dependency_pairs(deps, values) ==
    [i \in 1..Len(deps) |-> [name |-> deps[i], fingerprint |-> values[deps[i]]]]

\* ResolvedImage.fingerprint() of image n with the cache as it is: the kept
\* value, or self_hash and the pairs of the dependencies, whose
\* fingerprint() answers the same way.
RECURSIVE fingerprint(_, _, _, _)
fingerprint(cache, files, d, n) ==
    IF cache_hit(cache, n) THEN cache[n]
    ELSE LET deps == Ascending(Range(depends_on[n]))
             values == [m \in Names |->
                          IF m \in Range(depends_on[n])
                          THEN fingerprint(cache, files, d, m) ELSE NoFp]
         IN [self_hash |-> self_hash(files, d, n),
             deps |-> dependency_pairs(deps, values)]

\* The images whose fingerprint the call computes and keeps.
RECURSIVE Computed(_, _)
Computed(cache, n) ==
    IF cache_hit(cache, n) THEN {}
    ELSE {n} \cup UNION {Computed(cache, m) : m \in Range(depends_on[n])}

\* The cache after fingerprint() has been called on image n.
CacheAfter(cache, files, d, n) ==
    [m \in Names |-> IF m \in Computed(cache, n) THEN fingerprint(cache, files, d, m)
                     ELSE cache[m]]

\* spec() was called on image n in run r and returned a name for value.
Logged(r, n, value) ==
    IF r = 1
    THEN [specs EXCEPT ![n] = [first |-> IF @.first = NoFp THEN value ELSE @.first,
                               last |-> value,
                               again |-> @.first # NoFp]]
    ELSE specs

\* ResolvedImage.spec() -> fingerprint() on image n in run r
CallSpecOn(r, n) ==
    /\ fps' = [fps EXCEPT ![r] = CacheAfter(fps[r], tree[r], rd[r], n)]
    /\ specs' = Logged(r, n, fingerprint(fps[r], tree[r], rd[r], n))

\* DependencySet.__init__: image.spec() in known_images, image after image
\* in the order of the set; the second run follows the first.
CallSpec ==
    /\ pc = "fingerprints"
    /\ at[1] \in Runs
    /\ CallSpecOn(at[1], at[2])
    /\ at' = IF at[2] < NumImages THEN <<at[1], at[2] + 1>> ELSE <<at[1] + 1, 1>>
    /\ UNCHANGED <<cmdVars, otherVars, progVars, pc, error, pre_images, batchCallVars, rd,
                   extraVars,
                   tree, matching>>

\* The later callers of spec(): try_pull, build, write_dockerfile of a
\* dependent, ensure.
CallSpecAgain ==
    /\ pc = "fingerprints"
    /\ at[1] > 1
    /\ \E n \in Names : CallSpecOn(1, n)
    /\ UNCHANGED <<cmdVars, otherVars, progVars, pc, error, batchVars, rd, extraVars, tree,
                   matching>>

\* Copy.run, CargoBuild.run: a pre-image action puts a file into the
\* directory of an image while the program runs.
WriteFile ==
    /\ pc = "fingerprints"
    /\ \E n \in Names :
         /\ \A f \in tree[1] : ~(f.dir = ImagePath(n) /\ f.name = "new.txt")
         /\ tree' = [tree EXCEPT ![1] = @ \cup {PlainFile(ImagePath(n), "new.txt")}]
    /\ UNCHANGED <<cmdVars, otherVars, progVars, pc, error, batchVars, rd, extraVars, matching,
                   fps, specs>>

----------------------------------------------------------------------------
(* Image.__init__ on the Dockerfile and ResolvedImage.write_dockerfile *)

\* A line is the list of its symbols: the keywords MZFROM, FROM and AS, a
\* blank, the end of the line, and the characters a, b and x.
Whitespace == {" ", "\n"}

\* _DOCKERFILE_MZFROM_RE = ^MZFROM\s*(\S+): where group 1 starts in a line
\* that starts with MZFROM, after the whitespace that follows it; past the
\* end of the line when only whitespace follows.
GroupStart(line) ==
    CHOOSE k \in 2..(Len(line) + 1) :
        /\ \A i \in 2..(k - 1) : line[i] \in Whitespace
        /\ k <= Len(line) => line[k] \notin Whitespace

\* Where group 1 ends: before the next whitespace or at the end of the line.
GroupEnd(line) ==
    CHOOSE j \in GroupStart(line)..Len(line) :
        /\ \A i \in GroupStart(line)..j : line[i] \notin Whitespace
        /\ j < Len(line) => line[j + 1] \in Whitespace

\* _DOCKERFILE_MZFROM_RE.match(line)
mzfrom_match(line) ==
    /\ Len(line) >= 1
    /\ line[1] = "MZFROM"
    /\ GroupStart(line) <= Len(line)

\* match.group(1).decode()
group1(line) == SubSeq(line, GroupStart(line), GroupEnd(line))

\* Image.docker_name(tag="mzbuild-" + fingerprint) of the image of a name
spec(name) == <<"materialize/">> \o name \o <<":mzbuild-", "fingerprint">>

\* The substitution as it would be if it replaced the whole line.
mzfrom_sub_line(repl, line) == repl \o <<"\n">>

\* _DOCKERFILE_MZFROM_RE.sub(repl, line): the match is replaced, what
\* follows it is kept.
mzfrom_sub(repl, line) == repl \o SubSeq(line, GroupEnd(line) + 1, Len(line))

\* Image.__init__: for line in f: match; depends_on.append(group 1)
ImageInitLine ==
    /\ pc = "image_init"
    /\ at[2] <= Len(dockerfile)
    /\ df_depends_on' = IF mzfrom_match(dockerfile[at[2]])
                        THEN Append(df_depends_on, group1(dockerfile[at[2]]))
                        ELSE df_depends_on
    /\ at' = <<1, at[2] + 1>>
    /\ UNCHANGED <<cmdVars, progVars, pc, error, pre_images, batchCallVars, rd, extraVars,
                   fpVars, walkVars, dockerfile, df_dependencies, written>>

\* DependencySet.__init__ and ResolvedImage.__init__: one dependency for
\* every name of depends_on, kept by name.
ResolvedInit ==
    /\ pc = "image_init"
    /\ at[2] > Len(dockerfile)
    /\ df_dependencies' = Range(df_depends_on)
    /\ at' = <<1, 1>>
    /\ pc' = "write_dockerfile"
    /\ UNCHANGED <<cmdVars, progVars, error, pre_images, batchCallVars, rd, extraVars,
                   fpVars, walkVars, dockerfile, df_depends_on, written>>

\* write_dockerfile: one line of the loop
WriteLine ==
    /\ pc = "write_dockerfile"
    /\ at[2] <= Len(dockerfile)
    /\ LET line == dockerfile[at[2]]
       IN IF mzfrom_match(line)
          THEN IF group1(line) \in df_dependencies
               THEN /\ written' = Append(written,
                           mzfrom_sub(<<"FROM", " ">> \o spec(group1(line)), line))
                    /\ at' = <<1, at[2] + 1>>
                    /\ UNCHANGED <<pc, error>>
               ELSE /\ error' = "KeyError"
                    /\ pc' = "raised"
                    /\ UNCHANGED <<written, at>>
          ELSE /\ written' = Append(written, line)
               /\ at' = <<1, at[2] + 1>>
               /\ UNCHANGED <<pc, error>>
    /\ UNCHANGED <<cmdVars, progVars, pre_images, batchCallVars, rd, extraVars,
                   fpVars, walkVars, dockerfile, df_depends_on, df_dependencies>>

\* f.seek(0); return f
WriteReturn ==
    /\ pc = "write_dockerfile"
    /\ at[2] > Len(dockerfile)
    /\ pc' = "dockerfile_written"
    /\ UNCHANGED <<cmdVars, progVars, error, batchVars, rd, extraVars, fpVars, otherVars>>

----------------------------------------------------------------------------
(* Repository.__init__ *)

\* A directory of the walk: the manifest it holds, if any, as the name
\* (0 for a name that is missing or empty) and the depends_on of the image,
\* and whether it holds mzcompose.py; name is then Path(path).name.
NoManifest == [name |-> 0, depends_on |-> <<0>>]

\* d not in self.images, as it would be if nothing were looked up
unknown_never(d, images) == FALSE

\* d not in self.images
unknown(d, images) == d \notin DOMAIN images

\* self.images[image.name] = image
DictAdd(dict, key, value) ==
    [k \in DOMAIN dict \cup {key} |-> IF k = key THEN value ELSE dict[k]]

\* One directory of os.walk: the image, then the composition.
WalkDir ==
    /\ pc = "walk"
    /\ at[2] <= Len(walk)
    /\ LET dir == walk[at[2]]
           image == dir.manifest
           twice == image # NoManifest /\ image.name \in DOMAIN repo_images
           missing == image # NoManifest /\ image.name = 0
           again == dir.mzcompose /\ dir.basename \in compositions
       IN /\ repo_images' = IF image # NoManifest /\ ~missing /\ ~twice
                            THEN DictAdd(repo_images, image.name, image.depends_on)
                            ELSE repo_images
          /\ compositions' = IF dir.mzcompose /\ ~missing /\ ~twice
                             THEN compositions \cup {dir.basename}
                             ELSE compositions
          /\ IF missing \/ twice \/ again
             THEN /\ error' = "ValueError"
                  /\ pc' = "raised"
             ELSE UNCHANGED <<pc, error>>
    /\ at' = <<1, at[2] + 1>>
    /\ UNCHANGED <<cmdVars, progVars, pre_images, batchCallVars, rd, extraVars, fpVars, dfVars,
                   walk>>

\* Validate dependencies: every name of every depends_on is an image.
ValidateDependencies ==
    /\ pc = "walk"
    /\ at[2] > Len(walk)
    /\ IF \E n \in DOMAIN repo_images :
            \E d \in Range(repo_images[n]) : unknown(d, repo_images)
       THEN /\ error' = "ValueError"
            /\ pc' = "raised"
       ELSE /\ pc' = "constructed"
            /\ UNCHANGED error
    /\ UNCHANGED <<cmdVars, progVars, batchVars, rd, extraVars, fpVars, otherVars>>

----------------------------------------------------------------------------
(* CargoBuild.generate_cargo_build_command *)

\* round() of the quotient num / den of two positive integers: to the
\* nearest integer, and to the even one of the two when it is half way.
round(num, den) ==
    LET q == num \div den
        r == num % den
    IN IF 2 * r < den THEN q
       ELSE IF 2 * r > den THEN q + 1
       ELSE IF q % 2 = 0 THEN q ELSE q + 1

\* round(multiprocessing.cpu_count() * 2 / 3)
jobs(n) == round(n * 2, 3)

\* if rd.release_mode: cargo_build.append("--release")
CommandRelease ==
    /\ pc = "command_release"
    /\ cargo_build' = IF rd[1].release_mode THEN Append(cargo_build, "--release")
                      ELSE cargo_build
    /\ pc' = "command_sanitizer"
    /\ UNCHANGED <<otherVars, progVars, error, batchVars, rd, extraVars, fpVars,
                   cpu_count, jobs_arg>>

\* if rd.sanitizer != Sanitizer.none: --no-default-features and --jobs;
\* return cargo_build
CommandSanitizer ==
    /\ pc = "command_sanitizer"
    /\ IF rd[1].sanitizer # "none"
       THEN /\ cargo_build' = cargo_build \o <<"--no-default-features", "--jobs">>
            /\ jobs_arg' = jobs(cpu_count)
       ELSE UNCHANGED <<cargo_build, jobs_arg>>
    /\ pc' = "command_done"
    /\ UNCHANGED <<otherVars, progVars, error, batchVars, rd, extraVars, fpVars,
                   cpu_count>>

----------------------------------------------------------------------------
(* Initial states *)

NoCall ==
    /\ op = "none"
    /\ returned = {}
    /\ idx = 0
    /\ deps_to_build = <<>>
    /\ pulls = <<>>
    /\ built = <<>>
    /\ post_build = FALSE
    /\ called_back = <<>>
    /\ images_to_push = <<>>
    /\ pushes = <<>>
    /\ answers = <<>>
    /\ ret = "none"
    /\ error = "none"

\* No pre-image action is declared and none is prepared or run.
NoBatch ==
    /\ pre_images = [n \in Names |-> <<>>]
    /\ batch_images = <<>>
    /\ grouped = <<>>
    /\ pre_image_prep = <<>>
    /\ prepare_calls = <<>>
    /\ runs = <<>>
    /\ at = <<1, 1>>

\* The details of the runs: what Repository.__init__ is given.
Details ==
    [arch : Archs, release_mode : BOOLEAN, coverage : BOOLEAN, sanitizer : Sanitizers]

\* Repository.__init__ with its defaults but for the architecture: release
\* mode, no coverage, no sanitizer.
DefaultDetails ==
    [arch |-> "x86_64", release_mode |-> TRUE, coverage |-> FALSE, sanitizer |-> "none"]

\* No Dockerfile is read or written and no Repository is constructed.
NoDockerfile ==
    /\ dockerfile = <<>>
    /\ df_depends_on = <<>>
    /\ df_dependencies = {}
    /\ written = <<>>

NoWalk ==
    /\ walk = <<>>
    /\ repo_images = <<>>
    /\ compositions = {}

\* No cargo build command is being put together.
NoCommand ==
    /\ cpu_count = 1
    /\ cargo_build = <<>>
    /\ jobs_arg = 0

NoOther == NoDockerfile /\ NoWalk /\ NoCommand

\* extra() is not running.
NoExtra ==
    /\ flags = <<>>
    /\ extra_ret = <<>>

\* The work tree: the manifest and the Dockerfile of every image and the
\* files of the cargo workspace.
BaseTree ==
    {PlainFile(ImagePath(n), "mzbuild.yml") : n \in Names}
    \cup {PlainFile(ImagePath(n), "Dockerfile") : n \in Names}
    \cup {PlainFile(".", "Cargo.toml"), PlainFile(".", "Cargo.lock")}

\* fingerprint() has been called on no image.
NoCache ==
    /\ fps = [r \in Runs |-> [n \in Names |-> NoFp]]
    /\ specs = [n \in Names |-> [first |-> NoFp, last |-> NoFp, again |-> FALSE]]

NoFingerprint ==
    /\ tree = [r \in Runs |-> BaseTree]
    /\ matching = "*"
    /\ NoCache

ResolveStart ==
    /\ pc = "resolve"
    /\ NoBatch
    /\ rd = [r \in Runs |-> DefaultDetails]
    /\ NoExtra
    /\ NoOther
    /\ NoFingerprint
    /\ pending = sorted(targets)
    /\ stack = <<>>
    /\ resolved = <<>>
    /\ visiting = {}
    /\ diagram = <<>>
    /\ local = {}
    /\ registry = {}
    /\ _dependencies = <<>>
    /\ acquired = [n \in Names |-> FALSE]
    /\ NoCall

\* Lists of distinct names in ascending or in descending order.
Monotone(t) ==
    \/ \A i, j \in 1..Len(t) : i < j => t[i] < t[j]
    \/ \A i, j \in 1..Len(t) : i < j => t[i] > t[j]

\* The MZFROM lines of all Dockerfiles as (owner, dependency) pairs, one
\* Dockerfile after the other.
ByOwner(edges) == \A i, j \in 1..Len(edges) : i < j => edges[i][1] <= edges[j][1]

\* The resolver alone.  Repositories whose Dockerfiles hold at most MaxEdges
\* MZFROM lines in all, in any order and with repetitions;
\* Repository.__init__ has checked that every name is a registered image.
InitResolve ==
    /\ \E edges \in SeqsUpTo(Names \X Names, MaxEdges) :
           /\ ByOwner(edges)
           /\ depends_on = [n \in Names |-> DepsOf(n, edges)]
    /\ publish = [n \in Names |-> FALSE]
    /\ \E t \in SeqsUpTo(Names, NumImages) : Monotone(t) /\ targets = t
    /\ ResolveStart

NextResolve == VisitTarget \/ VisitChild \/ VisitReturn \/ DependencySetInit

SpecResolve == InitResolve /\ [][NextResolve]_vars

\* The calls of visit alone, up to the end of the loop over the targets:
\* repositories of at most MaxEdges dependencies among the images that the
\* targets reach, any set of targets.
InitVisit ==
    /\ \E T \in SUBSET Names, E \in SUBSET (Names \X Names) :
         /\ Cardinality(E) <= MaxEdges
         /\ targets = Ascending(T)
         /\ depends_on = [n \in Names |-> Ascending({d \in Names : <<n, d>> \in E})]
         /\ \A e \in E : e[1] \in Reach(T, depends_on)
    /\ publish = [n \in Names |-> FALSE]
    /\ ResolveStart

NextVisit == VisitTarget \/ VisitChild \/ VisitReturn

\* The resolver is one sequential call: while it can take a step, it does.
SpecVisit == InitVisit /\ [][NextVisit]_vars /\ WF_vars(NextVisit)

\* The whole program.  The targets reach at most MaxSet images; the images
\* they do not reach are read by nothing after Repository.__init__ and are
\* left publishable and without dependencies.
Init ==
    /\ \E T \in SUBSET Names, M \in SUBSET Names :
         /\ T \subseteq M
         /\ Cardinality(M) <= MaxSet
         /\ targets = Ascending(T)
         /\ \E E \in SUBSET (M \X M) :
              /\ Cardinality(E) <= MaxEdges
              /\ depends_on = [n \in Names |-> Ascending({d \in M : <<n, d>> \in E})]
              /\ Reach(T, depends_on) = M
         /\ \E P \in SUBSET M : publish = [n \in Names |-> n \notin M \/ n \in P]
    /\ ResolveStart

Next ==
    \/ VisitTarget \/ VisitChild \/ VisitReturn \/ DependencySetInit
    \/ AcquireCall \/ AcquirePull \/ AcquirePrepare \/ AcquireBuild
    \/ EnsureCall \/ EnsureBuild \/ EnsurePostBuild \/ EnsurePushSection
    \/ EnsureLaunch \/ EnsureLaunched \/ PushExit \/ EnsureWait \/ EnsureReturn
    \/ Check

Spec == Init /\ [][Next]_vars

\* No repository is resolved and no method of a DependencySet is called.
NoRun ==
    /\ depends_on = [n \in Names |-> <<>>]
    /\ publish = [n \in Names |-> TRUE]
    /\ targets = <<>>
    /\ pending = <<>>
    /\ stack = <<>>
    /\ resolved = <<>>
    /\ visiting = {}
    /\ diagram = <<>>
    /\ local = {}
    /\ registry = {}
    /\ _dependencies = <<>>
    /\ acquired = [n \in Names |-> FALSE]
    /\ NoCall

\* The number of pre-image actions of all images.
RECURSIVE TotalPre(_, _)
TotalPre(pre, S) ==
    IF S = {} THEN 0
    ELSE LET n == CHOOSE m \in S : TRUE
         IN Len(pre[n]) + TotalPre(pre, S \ {n})

\* Lists of distinct names.
Distinct(t) == \A i, j \in 1..Len(t) : i # j => t[i] # t[j]

\* _prepare_batch and the builds that follow it, on any list of at most
\* MaxSet images, in the order of the set, with at most MaxPre pre-image
\* actions each and one more than MaxPre in all; the images that are not in
\* the list declare none.
InitBatch ==
    /\ NoRun
    /\ pc = "prepare_group"
    /\ \E S \in SUBSET Names :
         /\ Cardinality(S) <= MaxSet
         /\ batch_images = Ascending(S)
         /\ \E pre \in [S -> SeqsUpTo(PreImageTypes, MaxPre)] :
              /\ TotalPre(pre, S) <= MaxPre + 1
              /\ pre_images = [n \in Names |-> IF n \in S THEN pre[n] ELSE <<>>]
    /\ grouped = <<>>
    /\ pre_image_prep = <<>>
    /\ prepare_calls = <<>>
    /\ runs = <<>>
    /\ at = <<1, 1>>
    /\ rd = [r \in Runs |-> DefaultDetails]
    /\ NoExtra
    /\ NoOther
    /\ NoFingerprint

NextBatch ==
    \/ PrepareBatchGroup \/ PrepareBatchCall \/ PrepareBatchReturn
    \/ BuildRun \/ BuildDocker \/ BuildsEnd

SpecBatch == InitBatch /\ [][NextBatch]_vars

\* extra() of a cargo pre-image, for any details of the repository.
InitExtra ==
    /\ NoRun
    /\ NoBatch
    /\ NoExtra
    /\ NoOther
    /\ NoFingerprint
    /\ pc = "extra_release"
    /\ \E d \in Details : rd = [r \in Runs |-> d]

NextExtra == ExtraRelease \/ ExtraCoverage \/ ExtraSanitizer \/ ExtraReturn

SpecExtra == InitExtra /\ [][NextExtra]_vars

\* No method of a DependencySet is called; the images are as
\* Repository.__init__ made them.
NoCalls ==
    /\ publish = [n \in Names |-> TRUE]
    /\ targets = <<>>
    /\ pending = <<>>
    /\ stack = <<>>
    /\ resolved = <<>>
    /\ visiting = {}
    /\ diagram = <<>>
    /\ local = {}
    /\ registry = {}
    /\ _dependencies = <<>>
    /\ acquired = [n \in Names |-> FALSE]
    /\ NoCall

\* Acyclic repositories of at most MaxEdges dependencies: every image
\* depends on images of smaller names, so that the order of the names is an
\* order resolve_dependencies can give.
DownGraph ==
    \E E \in SUBSET {e \in Names \X Names : e[2] < e[1]} :
        /\ Cardinality(E) <= MaxEdges
        /\ depends_on = [n \in Names |-> Ascending({d \in Names : <<n, d>> \in E})]

\* One run whose files change between the calls of spec().
InitCache ==
    /\ NoCalls
    /\ DownGraph
    /\ NoBatch
    /\ NoExtra
    /\ NoOther
    /\ NoFingerprint
    /\ rd = [r \in Runs |-> DefaultDetails]
    /\ pc = "fingerprints"

NextCache == CallSpec \/ CallSpecAgain \/ WriteFile

SpecCache == InitCache /\ [][NextCache]_vars

\* The Dockerfile of image n, changed in one way: what it holds, its mode
\* or its name.
ChangedFile(f, how) ==
    CASE how = "content" -> [f EXCEPT !.content = "v2"]
      [] how = "xusr"    -> [f EXCEPT !.xusr = TRUE]
      [] how = "lnk"     -> [f EXCEPT !.lnk = TRUE]
      [] OTHER           -> [f EXCEPT !.name = "new.txt"]

\* Two runs over the same repository whose file trees differ in one input
\* file of one image.
InitPropagation ==
    /\ NoCalls
    /\ DownGraph
    /\ NoBatch
    /\ NoExtra
    /\ NoOther
    /\ matching = "*"
    /\ NoCache
    /\ rd = [r \in Runs |-> DefaultDetails]
    /\ pc = "fingerprints"
    /\ \E n \in Names, how \in {"content", "xusr", "lnk", "rename"} :
         LET f == PlainFile(ImagePath(n), "Dockerfile")
         IN tree = [r \in Runs |-> IF r = 1 THEN BaseTree
                                   ELSE (BaseTree \ {f}) \cup {ChangedFile(f, how)}]

NextFingerprint == CallSpec

SpecPropagation == InitPropagation /\ [][NextFingerprint]_vars

\* The details of two runs differ in one axis.
OneAxisApart(d, e) ==
    \/ /\ d.arch # e.arch
       /\ e = [d EXCEPT !.arch = e.arch]
    \/ /\ d.release_mode # e.release_mode
       /\ e = [d EXCEPT !.release_mode = e.release_mode]
    \/ /\ d.coverage # e.coverage
       /\ e = [d EXCEPT !.coverage = e.coverage]
    \/ /\ d.sanitizer # e.sanitizer
       /\ e = [d EXCEPT !.sanitizer = e.sanitizer]

\* Two runs over the same file tree and the same repository, at most MaxPre
\* of whose images have a cargo pre-image, with details that differ in one
\* axis; the first run is for x86_64 and has no sanitizer.
InitAxes ==
    /\ NoCalls
    /\ DownGraph
    /\ \E pre \in [Names -> SeqsUpTo({"CargoBuild"}, 1)] :
         /\ TotalPre(pre, Names) <= MaxPre
         /\ pre_images = pre
    /\ batch_images = <<>>
    /\ grouped = <<>>
    /\ pre_image_prep = <<>>
    /\ prepare_calls = <<>>
    /\ runs = <<>>
    /\ at = <<1, 1>>
    /\ NoExtra
    /\ NoOther
    /\ NoFingerprint
    /\ \E d \in Details, e \in Details :
         /\ d.arch = "x86_64"
         /\ d.sanitizer = "none"
         /\ OneAxisApart(d, e)
         /\ rd = [r \in Runs |-> IF r = 1 THEN d ELSE e]
    /\ pc = "fingerprints"

SpecAxes == InitAxes /\ [][NextFingerprint]_vars

\* Two runs over the same repository, one image of which has a copy
\* pre-image with source libs and matching *.txt.  The second run's tree has
\* one file more under libs: new.txt or new.md.  libs may hold old.txt and
\* the root may hold a new.txt of its own.
InitCopy ==
    /\ NoCalls
    /\ DownGraph
    /\ \E c \in Names : pre_images = [n \in Names |-> IF n = c THEN <<"Copy">> ELSE <<>>]
    /\ batch_images = <<>>
    /\ grouped = <<>>
    /\ pre_image_prep = <<>>
    /\ prepare_calls = <<>>
    /\ runs = <<>>
    /\ at = <<1, 1>>
    /\ NoExtra
    /\ NoOther
    /\ NoCache
    /\ matching = "*.txt"
    /\ rd = [r \in Runs |-> DefaultDetails]
    /\ \E others \in SUBSET {PlainFile(CopySource, "old.txt"), PlainFile(".", "new.txt")},
          name \in {"new.txt", "new.md"} :
         tree = [r \in Runs |-> IF r = 1 THEN BaseTree \cup others
                                ELSE BaseTree \cup others \cup {PlainFile(CopySource, name)}]
    /\ pc = "fingerprints"

SpecCopy == InitCopy /\ [][NextFingerprint]_vars

\* The lines Dockerfiles are made of: a FROM line, MZFROM lines with one
\* blank, with several blanks and a rest, with no blank, with a name of two
\* characters, with no name, an MZFROM that is not at the start, an empty
\* line, and an MZFROM line that the end of the file ends.
DockerfileLines ==
    { <<"FROM", " ", "a", "\n">>,
      <<"MZFROM", " ", "a", "\n">>,
      <<"MZFROM", " ", " ", "b", " ", "AS", " ", "x", "\n">>,
      <<"MZFROM", "a", "\n">>,
      <<"MZFROM", " ", "a", "b", "\n">>,
      <<"MZFROM", "\n">>,
      <<"MZFROM", " ", "\n">>,
      <<" ", "MZFROM", " ", "a", "\n">>,
      <<"\n">>,
      <<"MZFROM", " ", "b">> }

\* f.readlines(): every line but the last ends with the end of a line.
Readlines(file) == \A i \in 1..(Len(file) - 1) : file[i][Len(file[i])] = "\n"

\* Image.__init__ reads the Dockerfile of an image, the image is resolved
\* and write_dockerfile renders it: any Dockerfile of at most MaxLines lines.
InitDockerfile ==
    /\ NoRun
    /\ NoBatch
    /\ NoExtra
    /\ NoFingerprint
    /\ NoWalk
    /\ NoCommand
    /\ rd = [r \in Runs |-> DefaultDetails]
    /\ \E file \in SeqsUpTo(DockerfileLines, MaxLines) :
         /\ Readlines(file)
         /\ dockerfile = file
    /\ df_depends_on = <<>>
    /\ df_dependencies = {}
    /\ written = <<>>
    /\ pc = "image_init"

NextDockerfile == ImageInitLine \/ ResolvedInit \/ WriteLine \/ WriteReturn

SpecDockerfile == InitDockerfile /\ [][NextDockerfile]_vars

\* The directories os.walk gives: with or without a manifest, whose image
\* has any name, or none, and depends on at most one name; with or without
\* mzcompose.py.
Directories ==
    { dir \in [manifest : {NoManifest} \cup
                             [name : {0} \cup Names, depends_on : SeqsUpTo(Names, 1)],
               mzcompose : BOOLEAN,
               basename : {"demo", "test"}] :
        ~dir.mzcompose => dir.basename = "test" }

\* Repository.__init__ on any tree of at most MaxDirs directories.
InitRepository ==
    /\ NoRun
    /\ NoBatch
    /\ NoExtra
    /\ NoFingerprint
    /\ NoDockerfile
    /\ NoCommand
    /\ rd = [r \in Runs |-> DefaultDetails]
    /\ walk \in SeqsUpTo(Directories, MaxDirs)
    /\ repo_images = <<>>
    /\ compositions = {}
    /\ pc = "walk"

NextRepository == WalkDir \/ ValidateDependencies

SpecRepository == InitRepository /\ [][NextRepository]_vars

\* The resolver on targets given in any order: repositories as in
\* InitResolve with one MZFROM line less, whose Dockerfiles list their MZFROM
\* lines in any order, and any list of distinct targets.
InitOrder ==
    /\ \E edges \in SeqsUpTo(Names \X Names, MaxEdges - 1) :
           /\ ByOwner(edges)
           /\ depends_on = [n \in Names |-> DepsOf(n, edges)]
    /\ publish = [n \in Names |-> FALSE]
    /\ \E t \in SeqsUpTo(Names, NumImages) : Distinct(t) /\ targets = t
    /\ ResolveStart

SpecOrder == InitOrder /\ [][NextResolve]_vars

\* generate_cargo_build_command on a machine of any number of CPUs up to
\* MaxCpus, for any details of the repository.
InitCommand ==
    /\ NoRun
    /\ NoBatch
    /\ NoExtra
    /\ NoFingerprint
    /\ NoDockerfile
    /\ NoWalk
    /\ \E d \in Details : rd = [r \in Runs |-> d]
    /\ cpu_count \in 1..MaxCpus
    /\ cargo_build = <<>>
    /\ jobs_arg = 0
    /\ pc = "command_release"

NextCommand == CommandRelease \/ CommandSanitizer

SpecCommand == InitCommand /\ [][NextCommand]_vars

----------------------------------------------------------------------------
(* Properties of the resolver *)

\* Every image of order comes after the images it depends on.
Topological(order) ==
    \A i \in 1..Len(order) :
        \A d \in Range(depends_on[order[i]]) :
            \E j \in 1..(i - 1) : order[j] = d

\* Some image that the targets reach depends on itself, directly or not.
CycleReachable ==
    \E n \in Reach(Range(targets), depends_on) :
        n \in Reach(Range(depends_on[n]), depends_on)

\* The loop over the targets has ended without an error.
ResolveEnded == pc = "resolve" /\ stack = <<>> /\ pending = <<>>

\* C1: the DependencySet that resolve_dependencies returns iterates in an
\* order in which every image comes after each image of its depends_on, and
\* building the set from the resolved images never fails on a dependency
\* that is not in it yet.
C1_TopologicalOrder ==
    /\ ResolveEnded => Topological(resolved)
    /\ pc = "idle" => Topological(_dependencies)
    /\ error # "KeyError"

\* A set of three images is returned for a repository in which image 1 lists
\* its dependencies 3 and 2 out of order and image 2 depends on image 3.
C1_Witness ==
    /\ pc = "idle"
    /\ depends_on[1] = <<3, 2>>
    /\ depends_on[2] = <<3>>
    /\ _dependencies = <<3, 2, 1>>

\* C2: when a dependency cycle is reachable from the targets, no
\* DependencySet is returned; the error reports a path that starts at a
\* target, follows depends_on edges, ends with the re-entered image, which
\* occurs in it earlier (so the path holds the whole cycle), and has no other
\* repetition (the re-entered image is the first one).
C2_CircularDependency ==
    /\ CycleReachable => (~ResolveEnded /\ pc # "idle")
    /\ pc = "circular" =>
         /\ CycleReachable
         /\ _dependencies = <<>>
         /\ Len(diagram) >= 2
         /\ diagram[1] \in Range(targets)
         /\ \A i \in 1..(Len(diagram) - 1) :
                diagram[i + 1] \in Range(depends_on[diagram[i]])
         /\ \E i \in 1..(Len(diagram) - 1) : diagram[i] = diagram[Len(diagram)]
         /\ \A i, j \in 1..(Len(diagram) - 1) : i # j => diagram[i] # diagram[j]

\* a -> b -> c -> a with target a: the path is a, b, c, a.
C2_Witness ==
    /\ pc = "circular"
    /\ targets = <<1>>
    /\ diagram = <<1, 2, 3, 1>>

----------------------------------------------------------------------------
(* Properties of acquire *)

Members == Range(_dependencies)

\* The images whose docker pull failed in this call.
FailedPulls == {pulls[i].name : i \in {j \in 1..Len(pulls) : ~pulls[j].ok}}

\* acquire is running.
InAcquire == pc \in {"acquire_pull", "acquire_build"}

\* C3: once a call of acquire has ended, every image whose pull failed in it
\* has been built by it.
C3_FailedPullsAreBuilt ==
    (op = "acquire" /\ ~InAcquire) => \A d \in FailedPulls : InSeq(d, built)

C5_SecondAcquireIdle ==
    (op = "acquire" /\ "acquire" \in returned) => (pulls = <<>> /\ built = <<>>)

\* A second acquire has run try_pull on both images of the set.
C5_Witness ==
    /\ op = "acquire"
    /\ "acquire" \in returned
    /\ pc = "acquire_build"
    /\ Len(_dependencies) = 2

----------------------------------------------------------------------------
(* Properties of check and ensure *)

\* check has just returned: nothing has changed since it read the registry.
CheckReturned == op = "check" /\ pc = "idle"

\* C6: is_published_if_necessary is true exactly when the image is not
\* publishable or its spec is in the registry.
C6_PublishedIfNecessary ==
    CheckReturned =>
        \A i \in 1..Len(answers) :
            answers[i].value <=>
                (~publish[answers[i].name] \/ answers[i].name \in registry)

\* C7: check returns true exactly when every publishable image of the set
\* has its spec in the registry; it pulls, builds and pushes nothing.
C7_CheckPublishable ==
    CheckReturned =>
        /\ ret <=> (\A d \in Members : publish[d] => d \in registry)
        /\ pulls = <<>> /\ built = <<>> /\ pushes = <<>>

\* ensure is about to return, every push having been waited for.
EnsureReturning == pc = "ensure_wait" /\ idx > Len(pushes)

\* C8: when ensure returns normally, the spec of every publishable image of
\* the set is in the registry.
C8_EnsurePublishes ==
    (EnsureReturning \/ (op = "ensure" /\ pc = "idle")) =>
        \A d \in Members : publish[d] => d \in registry

\* The images this call has built: a build that failed ended the call.
Built == IF error = "build" THEN Range(SubSeq(built, 1, Len(built) - 1))
         ELSE Range(built)

Pushed == {pushes[k].image : k \in 1..Len(pushes)}

\* C9: ensure pushes publishable images that it has built in this call, each
\* once, and once the pushes are launched they are all of these.
C9_PushesBuiltPublishable ==
    /\ \A d \in Pushed : d \in Built /\ publish[d]
    /\ \A j, k \in 1..Len(pushes) : j # k => pushes[j].image # pushes[k].image
    /\ \A d \in Pushed : d \in Range(deps_to_build)
    /\ (op = "ensure" /\ (pc = "ensure_wait" \/ (pc = "raised" /\ error = "push")))
         => Pushed = {d \in Built : publish[d]}

\* ensure has built two images and launched the push of the publishable one.
C9_Witness ==
    /\ pc = "ensure_wait"
    /\ Len(built) = 2
    /\ Len(pushes) = 1
    /\ \E d \in Range(built) : ~publish[d]

\* C10: no push is waited for before all are launched; ensure ends, by
\* return or error, only when every launched push has ended and been waited
\* for; the error is that of the first push that failed.
C10_WaitsForAllPushes ==
    /\ pc = "ensure_launch" => \A k \in 1..Len(pushes) : ~pushes[k].waited
    /\ (op = "ensure" /\ (EnsureReturning \/ (pc = "raised" /\ error = "push"))) =>
         \A k \in 1..Len(pushes) : pushes[k].state = "exited" /\ pushes[k].waited
    /\ (pc = "raised" /\ error = "push") =>
         /\ pushes[idx].returncode # 0
         /\ \A k \in 1..(idx - 1) : pushes[k].returncode = 0

----------------------------------------------------------------------------
(* Properties of the builds *)

\* A step in which acquire or ensure starts the build of an image.
BuildStarts == Len(built') = Len(built) + 1

\* The image whose build the step starts.
BuildStarted == built'[Len(built')]

\* C11: when the build of an image starts, each image of its depends_on is
\* in the local image store: it was built or pulled before.
C11_DependenciesBeforeBuild ==
    [][BuildStarts => \A d \in Range(depends_on[BuildStarted]) : d \in local]_vars

\* C12: when build is called on an image, the acquired flag of each of its
\* dependencies is set.
C12_BuildPrecondition ==
    [][BuildStarts => \A d \in Range(depends_on[BuildStarted]) : acquired[d]]_vars

----------------------------------------------------------------------------
(* Properties of _prepare_batch *)

\* The classes that occur among the pre-images of the images to build.
Occurring == {type(Instances(batch_images)[j]) : j \in 1..Len(Instances(batch_images))}

\* The instances of a class among the images to build.
InstancesOf(cls) ==
    {Instances(batch_images)[j] : j \in {i \in 1..Len(Instances(batch_images)) :
                                      type(Instances(batch_images)[i]) = cls}}

\* _prepare_batch has returned.
Prepared == pc \in {"batch_build", "batch_done"}

\* C13: prepare_batch is called once at most for a class, always with every
\* instance of the class among the images to build, and once _prepare_batch
\* has returned it has been called for every class that occurs; run gets
\* the value that the call for its class returned; the lookup in prep never
\* fails.
C13_PrepareBatchOnce ==
    /\ \A i, j \in 1..Len(prepare_calls) :
           i # j => prepare_calls[i].cls # prepare_calls[j].cls
    /\ \A i \in 1..Len(prepare_calls) :
           /\ prepare_calls[i].cls \in Occurring
           /\ Range(prepare_calls[i].instances) = InstancesOf(prepare_calls[i].cls)
           /\ Distinct(prepare_calls[i].instances)
    /\ Prepared =>
           {prepare_calls[i].cls : i \in 1..Len(prepare_calls)} = Occurring
    /\ \A r \in 1..Len(runs) :
           \E i \in 1..Len(prepare_calls) :
               /\ prepare_calls[i].cls = runs[r].cls
               /\ prepare_calls[i].value = runs[r].prep
    /\ error # "KeyError"

\* Two images with a cargo build each and a copy in one of them: every
\* pre-image has run, with the output of the one cargo batch or with None.
C13_Witness ==
    /\ pc = "batch_done"
    /\ Len(batch_images) = 2
    /\ Len(runs) = 3
    /\ Len(prepare_calls) = 2
    /\ \E i \in 1..2 : /\ prepare_calls[i].cls = "CargoBuild"
                       /\ Len(prepare_calls[i].instances) = 2

----------------------------------------------------------------------------
(* Properties of CargoPreImage.extra *)

\* The axis tags that are present, as whole strings.
AxisTags(d) ==
    (IF d.release_mode THEN <<release_str>> ELSE <<>>)
    \o (IF d.coverage THEN <<coverage_str>> ELSE <<>>)
    \o (IF d.sanitizer # "none" THEN <<SanitizerValue(d.sanitizer)>> ELSE <<>>)

\* C18: extra() returns the tags that are present, sorted and joined by
\* commas.
C18_ExtraJoinsTags ==
    pc = "extra_done" => extra_ret = Join(StrSort(AxisTags(rd[1])))

----------------------------------------------------------------------------
(* Properties of the fingerprints *)

\* spec() has been called on the image at least twice and the files of the
\* image are no longer what they were at the first call.
Stale(n) ==
    /\ specs[n].again
    /\ fingerprint([m \in Names |-> NoFp], tree[1], rd[1], n) # specs[n].first

\* C14: the first fingerprint() call of an image is authoritative: every
\* later call returns the value of the first, whatever happened to the input
\* files in between, so that every spec() of the image in one run is the
\* same string.
C14_FirstFingerprintAuthoritative ==
    \A n \in Names :
        specs[n].first # NoFp => specs[n].last = specs[n].first /\ fps[1][n] = specs[n].first

C14_Witness == \E n \in Names : Stale(n) /\ specs[n].last = specs[n].first

\* The files in the directory of an image in a run.
OwnFiles(r, n) == {f \in tree[r] : f.dir = ImagePath(n)}

\* The images that depend on image c, directly or transitively.
Dependents(c) == {p \in Names : c \in Reach(Range(depends_on[p]), depends_on)}

\* fingerprint() of the image has been computed in both runs.
BothComputed(n) == fps[1][n] # NoFp /\ fps[2][n] # NoFp

BuildsWithCargo(n) ==
    \E m \in Reach({n}, depends_on) : "CargoBuild" \in Range(pre_images[m])

\* The runs differ in an axis that fingerprint() hashes for every image.
HashedAxisDiffers ==
    \/ rd[1].arch # rd[2].arch
    \/ rd[1].coverage # rd[2].coverage
    \/ rd[1].sanitizer # rd[2].sanitizer

\* C16: with a collision-free hash, two runs over the same file tree whose
\* axes differ in arch, coverage or sanitizer give every image a different
\* fingerprint; two runs that differ in release mode give a different
\* fingerprint to the images that have a cargo pre-image or depend on an
\* image that has one, and the same fingerprint to every other image.
C16_AxisIsolation ==
    \A n \in Names :
        BothComputed(n) =>
            ((fps[1][n] # fps[2][n]) <=> (HashedAxisDiffers \/ BuildsWithCargo(n)))

C16_Witness ==
    /\ rd[1].release_mode # rd[2].release_mode
    /\ \E n, m \in Names :
         /\ BothComputed(n) /\ ~BuildsWithCargo(n) /\ fps[1][n] = fps[2][n]
         /\ BothComputed(m) /\ BuildsWithCargo(m) /\ fps[1][m] # fps[2][m]
         /\ pre_images[m] = <<>>

\* C16 as stated: runs whose axes differ in any one of arch, release mode,
\* coverage or sanitizer give every image a different fingerprint.
C16_EveryAxisEveryImage ==
    \A n \in Names : BothComputed(n) => fps[1][n] # fps[2][n]

\* The second run has the file of this name under libs and the first has not.
AddedToLibs(name) == tree[2] \ tree[1] = {PlainFile(CopySource, name)}

\* C17: for an image with a copy pre-image whose source is libs and whose
\* matching glob is *.txt, a run with one more file libs/new.txt gives the
\* image another fingerprint and a run with one more file libs/new.md gives
\* it the same fingerprint.
C17_CopyInputsHashed ==
    \A n \in Names :
        "Copy" \in Range(pre_images[n]) /\ matching = "*.txt" /\ BothComputed(n) =>
            /\ AddedToLibs("new.txt") => fps[1][n] # fps[2][n]
            /\ AddedToLibs("new.md") => fps[1][n] = fps[2][n]

----------------------------------------------------------------------------
(* Properties of write_dockerfile and of Repository.__init__ *)

\* The line starts with MZFROM, whitespace or none, and a name that ends at
\* position j; the name starts at position k.
MzfromName(line, k, j) ==
    /\ line[1] = "MZFROM"
    /\ \A i \in 2..(k - 1) : line[i] \in Whitespace
    /\ \A i \in k..j : line[i] \notin Whitespace
    /\ j = Len(line) \/ line[j + 1] \in Whitespace

IsMzfromLine(line) ==
    \E k \in 2..Len(line), j \in 2..Len(line) : k <= j /\ MzfromName(line, k, j)

\* Line i of the file written is line i of the Dockerfile, with MZFROM and
\* the name replaced by FROM and the spec of the dependency of that name if
\* the line starts with them.
Rendered(i) ==
    LET line == dockerfile[i]
    IN IF IsMzfromLine(line)
       THEN \E k \in 2..Len(line), j \in 2..Len(line) :
               /\ k <= j
               /\ MzfromName(line, k, j)
               /\ written[i] = <<"FROM", " ">> \o spec(SubSeq(line, k, j))
                                  \o SubSeq(line, j + 1, Len(line))
       ELSE written[i] = line

\* C19: the file write_dockerfile produces has the lines of the Dockerfile
\* in the same number and order; a line that does not start with MZFROM and
\* a name is unchanged, a line that does has FROM and the spec of the
\* dependency in their place and the rest of the line unchanged; the lookup
\* of the dependency never fails.
C19_MzfromFaithful ==
    /\ error # "KeyError"
    /\ Len(written) <= Len(dockerfile)
    /\ \A i \in 1..Len(written) : Rendered(i)
    /\ pc = "dockerfile_written" => Len(written) = Len(dockerfile)

C19_Witness ==
    /\ pc = "dockerfile_written"
    /\ Len(dockerfile) = 2
    /\ dockerfile[1] = <<"MZFROM", " ", " ", "b", " ", "AS", " ", "x", "\n">>
    /\ written[1] = <<"FROM", " ", "materialize/", "b", ":mzbuild-", "fingerprint",
                      " ", "AS", " ", "x", "\n">>
    /\ written[2] = <<"MZFROM", "\n">>

\* Every name an image of the repository depends on is the name of an
\* image of the repository.
Closed == \A n \in DOMAIN repo_images : Range(repo_images[n]) \subseteq DOMAIN repo_images

\* The directories with a manifest have images of different names, each
\* of which is an image of the repository.
Manifests == {i \in 1..Len(walk) : walk[i].manifest # NoManifest}
UniqueNames ==
    /\ \A i, j \in Manifests : i # j => walk[i].manifest.name # walk[j].manifest.name
    /\ DOMAIN repo_images = {walk[i].manifest.name : i \in Manifests}
    /\ \A i \in Manifests : repo_images[walk[i].manifest.name] = walk[i].manifest.depends_on

\* No image reaches itself through depends_on.
Acyclic ==
    \A n \in DOMAIN repo_images :
        n \notin Reach(Range(repo_images[n]), [m \in Names |->
                     IF m \in DOMAIN repo_images THEN repo_images[m] ELSE <<>>])

\* C20: a Repository that is constructed has images of unique names whose
\* depends_on name images of the repository only.
C20_ClosedUniqueNames ==
    pc = "constructed" => Closed /\ UniqueNames

C20_Witness ==
    /\ pc = "constructed"
    /\ Cardinality(DOMAIN repo_images) = 2
    /\ \A n \in DOMAIN repo_images : repo_images[n] # <<>>
    /\ ~Acyclic

\* C20 as stated: the dependency graph of a constructed Repository is also
\* acyclic.
C20_AcyclicClosedUniqueNames ==
    pc = "constructed" => Acyclic /\ Closed /\ UniqueNames

----------------------------------------------------------------------------
(* Properties of the acquired flag *)

\* C21: the acquired flag of an image is monotone: no step of try_pull,
\* build, acquire, ensure or check sets a flag that is true back to false.
C21_AcquiredMonotone ==
    [][\A n \in Names : acquired[n] => acquired'[n]]_vars

C21_Witness ==
    \E n \in Names :
        /\ acquired[n]
        /\ "acquire" \in returned
        /\ InSeq(n, built)

----------------------------------------------------------------------------
(* The order of the DependencySet *)

\* The order that the set of the targets and the sets of the dependencies
\* determine: each target in the order of the names, after the images it
\* depends on, in the order of their names, that are not listed yet.
RECURSIVE PostOrder(_, _), PostOrderAll(_, _)
PostOrder(n, listed) ==
    IF InSeq(n, listed) THEN listed
    ELSE Append(PostOrderAll(Ascending(Range(depends_on[n])), listed), n)

PostOrderAll(names, listed) ==
    IF names = <<>> THEN listed
    ELSE PostOrderAll(Tail(names), PostOrder(Head(names), listed))

CanonicalOrder == PostOrderAll(Ascending(Range(targets)), <<>>)

\* C22: the order in which the DependencySet that resolve_dependencies
\* returns iterates is determined by the set of the targets and the sets of
\* the dependencies alone: in whatever order the targets are given and the
\* depends_on entries are listed, it is the same order.
C22_OrderDetermined ==
    [][ResolveEnded =>
          /\ resolved = CanonicalOrder
          /\ pc' = "idle" => _dependencies' = CanonicalOrder]_vars

\* Targets 3, 1, 2 and image 1 listing its dependencies as 3, 2.
C22_Witness ==
    /\ ResolveEnded
    /\ targets = <<3, 1, 2>>
    /\ depends_on[1] = <<3, 2>>
    /\ resolved = <<2, 3, 1>>

----------------------------------------------------------------------------
(* The cargo build command *)

\* The least integer that is not less than num / den.
Ceiling(num, den) == CHOOSE c \in 0..num : c * den >= num /\ (c - 1) * den < num

\* C23: with a sanitizer, the number passed to --jobs is the ceiling of
\* 2 * N / 3 for N CPUs, and at least 1.
C23_JobsCeiling ==
    pc = "command_done" /\ rd[1].sanitizer # "none" =>
        /\ jobs_arg = Ceiling(2 * cpu_count, 3)
        /\ jobs_arg >= 1

----------------------------------------------------------------------------
(* The acquired flag and the local image store *)

\* C24: in every state that the construction of the DependencySet,
\* try_pull, build, acquire and ensure reach, the acquired flag of an image
\* of the set is true exactly when the image is in the local image store;
\* an image that has just been built is marked acquired.
C24_AcquiredIffLocal ==
    \A n \in Range(_dependencies) : acquired[n] <=> n \in local

----------------------------------------------------------------------------
(* Termination of the resolver *)

\* The calls of visit are over: one has raised, or the loop over the
\* targets has ended.
ResolveOver == pc = "circular" \/ ResolveEnded

\* While the resolver runs, a name that is in visiting and not in resolved
\* is on the current depth-first path.
VisitingOnPath ==
    pc = "resolve" =>
        \A n \in visiting : ~InSeq(n, resolved) => n \in Range(path)

\* C25: resolve_dependencies terminates on every repository; when no cycle
\* is reachable from the targets it reports no circular dependency, also
\* for an image that is reached along several paths or from several
\* targets; a name that is in visiting and not in resolved is always on
\* the current depth-first path.
C25_ResolverTerminates ==
    /\ <>ResolveOver
    /\ [](~CycleReachable => pc # "circular")
    /\ []VisitingOnPath

\* A diamond: image 1 depends on 2 and 3, image 2 on 3; targets 1 and 2.
C25_Witness ==
    /\ ResolveEnded
    /\ targets = <<1, 2>>
    /\ depends_on[1] = <<2, 3>>
    /\ depends_on[2] = <<3>>
    /\ resolved = <<3, 2, 1>>
    /\ visiting = {1, 2, 3}

\* The images of deps_to_build before position k.
Before(k) == SubSeq(deps_to_build, 1, k - 1)

\* ensure has left the loop over deps_to_build by its end.
BuildLoopOver == pc \in {"ensure_launch", "ensure_wait"}

\* A build or a callback of this call of ensure has raised.
BuildFailed == pc = "raised" /\ error \in {"build", "post_build"}

\* C26: in ensure, a push process exists only when every image of
\* deps_to_build has been built and, if post_build was supplied, called back
\* with; post_build is called once per built image, directly after that
\* image's build and before the next build; and when a build or a callback
\* raises, no push process has been started.
C26_PushAfterBuilds ==
    op = "ensure" =>
        /\ pushes # <<>> =>
              /\ built = deps_to_build
              /\ post_build => called_back = deps_to_build
        /\ pc = "ensure_build" =>
              /\ built = Before(idx)
              /\ called_back = IF post_build THEN built ELSE <<>>
        /\ pc = "ensure_post_build" =>
              /\ built = Before(idx + 1)
              /\ called_back = IF post_build THEN Before(idx) ELSE <<>>
        /\ BuildLoopOver =>
              /\ built = deps_to_build
              /\ called_back = IF post_build THEN built ELSE <<>>
        /\ BuildFailed =>
              /\ pushes = <<>>
              /\ built = Before(idx + 1)
              /\ called_back = IF ~post_build THEN <<>>
                               ELSE IF error = "post_build" THEN built
                               ELSE Before(idx)

\* ensure built two images, called post_build with each in turn, and then
\* started the pushes of both.
C26_Witness ==
    /\ op = "ensure"
    /\ post_build
    /\ Len(built) = 2
    /\ called_back = built
    /\ Len(pushes) = 2

============================================================================
